---- MODULE Spec2Model ----
(***************************************************************************)
(* A model of tasks.py of scrapers-ca: the slug helper, the memoised       *)
(* lookups behind get_definition, and the tidy task that audits and        *)
(* rewrites the jurisdiction modules.                                      *)
(*                                                                         *)
(* Python strings are TLA+ strings; TLC evaluates Len, SubSeq and \o on    *)
(* them, so every text operation of the source is computed character by    *)
(* character.  Python's None is the model value-like string NONE.          *)
(***************************************************************************)
EXTENDS Integers, Sequences, FiniteSets, TLC

VARIABLES
    \* harness of the pure function slug
    slug_name, slug_once, slug_twice, slug_pc,
    \* module-level memo dictionaries of tasks.py and the last call made
    registry, province_or_territory_abbreviation_memo, ocdid_to_type_name_map,
    calls, last_call,
    \* how often the registry was read to build the memo, and how many
    \* reference documents were requested, since the process started
    memo_scans, documents_fetched,
    \* the working directory: os.listdir order and the files of every module
    order, disk,
    \* tidy: where the run stands, how the run before it ended, and its locals
    tidy_pc, previous, position, division_ids, jurisdiction_ids, printed,
    rewrites, defined, raised

slug_vars == <<slug_name, slug_once, slug_twice, slug_pc>>
memo_vars == <<registry, province_or_territory_abbreviation_memo,
               ocdid_to_type_name_map, calls, last_call, memo_scans,
               documents_fetched>>
tidy_vars == <<order, disk, tidy_pc, previous, position, division_ids,
               jurisdiction_ids, printed, rewrites, defined, raised>>
vars == <<slug_vars, memo_vars, tidy_vars>>

(***************************************************************************)
(* Bounds.                                                                 *)
(***************************************************************************)
MaxNameLen == 3
MaxCalls == 2
MaxModules == 2

(***************************************************************************)
(* Text helpers: the str methods the source uses.                          *)
(***************************************************************************)
NONE == "<None>"

\* F applied to the value of v, with v worked out once
With(v, F(_)) == CHOOSE r \in {F(x) : x \in {v}} : TRUE

Char(s, i) == SubSeq(s, i, i)

RECURSIVE Find(_, _, _)
\* str.find(sub) from position i (1-based); 0 when sub does not occur.
Find(s, sub, i) ==
    IF i + Len(sub) - 1 > Len(s) THEN 0
    ELSE IF SubSeq(s, i, i + Len(sub) - 1) = sub THEN i
    ELSE Find(s, sub, i + 1)

Contains(s, sub) == Find(s, sub, 1) > 0

StartsWith(s, p) == Len(p) <= Len(s) /\ SubSeq(s, 1, Len(p)) = p

EndsWith(s, p) == Len(p) <= Len(s) /\ SubSeq(s, Len(s) - Len(p) + 1, Len(s)) = p

RECURSIVE Replace(_, _, _)
\* str.replace(old, new): every non-overlapping occurrence, left to right.
\* With old empty Python puts new before every character and at the end.
Replace(s, old, new) ==
    IF old = "" THEN
        IF s = "" THEN new
        ELSE new \o Char(s, 1) \o Replace(SubSeq(s, 2, Len(s)), old, new)
    ELSE IF Len(s) < Len(old) THEN s
    ELSE IF SubSeq(s, 1, Len(old)) = old
         THEN new \o Replace(SubSeq(s, Len(old) + 1, Len(s)), old, new)
    ELSE Char(s, 1) \o Replace(SubSeq(s, 2, Len(s)), old, new)

RECURSIVE RFind(_, _, _)
\* position of the last occurrence of the one-character string c at or before i
RFind(s, c, i) ==
    IF i = 0 THEN 0 ELSE IF Char(s, i) = c THEN i ELSE RFind(s, c, i - 1)

\* Characters outside ASCII that the source names or that unidecode maps to
\* ASCII punctuation.  The module text is limited to Latin-1, so the en dash
\* (U+2013) and the em dash (U+2014) are written with the two stand-ins below;
\* every operator treats the stand-in as the dash it stands for.
EnDash == "¬"
EmDash == "¦"
Acute == "´"
Nbsp == " "

UpperAlpha == "ABCDEFGHIJKLMNOPQRSTUVWXYZÀÉÎÔ"
LowerAlpha == "abcdefghijklmnopqrstuvwxyzàéîô"
AsciiUpper == "ABCDEFGHIJKLMNOPQRSTUVWXYZ"

\* str.lower() and str.upper() on one character
LowerChar(c) ==
    LET i == Find(UpperAlpha, c, 1) IN IF c # "" /\ i > 0 THEN Char(LowerAlpha, i) ELSE c
UpperChar(c) ==
    LET i == Find(LowerAlpha, c, 1) IN IF c # "" /\ i > 0 THEN Char(UpperAlpha, i) ELSE c

RECURSIVE Lower(_)
Lower(s) == IF s = "" THEN "" ELSE LowerChar(Char(s, 1)) \o Lower(SubSeq(s, 2, Len(s)))

\* unidecode on one character: ASCII is kept, anything else becomes its
\* ASCII transliteration, which may be a quote, a dash, or several characters.
UnidecodeChar(c) ==
    CASE c = "à" -> "a" [] c = "é" -> "e" [] c = "î" -> "i" [] c = "ô" -> "o"
      [] c = "À" -> "A" [] c = "É" -> "E" [] c = "Î" -> "I" [] c = "Ô" -> "O"
      [] c = Acute -> "'"
      [] c = Nbsp -> " "
      [] c = EnDash -> "-"
      [] c = EmDash -> "--"
      [] OTHER -> c

RECURSIVE unidecode(_)
unidecode(s) ==
    IF s = "" THEN "" ELSE UnidecodeChar(Char(s, 1)) \o unidecode(SubSeq(s, 2, Len(s)))

(***************************************************************************)
(* slug                                                                    *)
(***************************************************************************)
\* the table given to str.translate
SlugTable(c) ==
    CASE c = " " -> "_"
      [] c = "'" -> "_"
      [] c = "-" -> "_"
      [] c = EmDash -> "_"
      [] c = EnDash -> "_"
      [] c = "." -> ""
      [] OTHER -> c

RECURSIVE Translate(_)
Translate(s) ==
    IF s = "" THEN "" ELSE SlugTable(Char(s, 1)) \o Translate(SubSeq(s, 2, Len(s)))

slug(name) == unidecode(Translate(Lower(name)))

\* the characters the names given to slug are drawn from
SlugAlphabet == {"a", "B", "é", " ", "'", "-", EnDash, ".", Acute, "_"}

RECURSIVE NamesUpTo(_)
NamesUpTo(n) ==
    IF n = 0 THEN {""}
    ELSE LET shorter == NamesUpTo(n - 1)
         IN  shorter \cup {s \o c : s \in shorter, c \in SlugAlphabet}

(***************************************************************************)
(* The division registry (country-ca.csv read through Division.all and     *)
(* Division.get) and the two reference documents of Statistics Canada.     *)
(***************************************************************************)
Prefix == "ocd-division/country:ca"

Div(id, type, name, parent, sgc, classification, url) ==
    [id |-> id, type |-> type, name |-> name, parent |-> parent, sgc |-> sgc,
     classification |-> classification, url |-> url]

\* rows in file order
FullRegistry == <<
    Div(Prefix, "country", "Canada", NONE, "01", "", ""),
    Div(Prefix \o "/province:nl", "province", "Newfoundland and Labrador", Prefix, "10", "", ""),
    Div(Prefix \o "/province:ns", "province", "Nova Scotia", Prefix, "12", "", "http://nslegislature.ca"),
    Div(Prefix \o "/province:nb", "province", "New Brunswick", Prefix, "13", "", ""),
    Div(Prefix \o "/province:qc", "province", "Québec", Prefix, "24", "", ""),
    Div(Prefix \o "/territory:yt", "territory", "Yukon", Prefix, "60", "", ""),
    Div(Prefix \o "/cd:3521", "cd", "Peel", Prefix, "3521", "RM", ""),
    Div(Prefix \o "/csd:1307022", "csd", "Moncton", Prefix, "1307022", "CY", "http://www.moncton.ca"),
    Div(Prefix \o "/csd:1217030", "csd", "Cape Breton", Prefix, "1217030", "RGM", ""),
    Div(Prefix \o "/csd:2423027", "csd", "Québec", Prefix, "2423027", "V", ""),
    Div(Prefix \o "/csd:2423027/arrondissement:la_cite-limoilou", "arrondissement",
        "La Cité-Limoilou", Prefix \o "/csd:2423027", "", "", ""),
    Div(Prefix \o "/ed:35001-2013", "ed", "Ajax", Prefix, "", "", "")
>>

IsProvinceOrTerritory(d) == d.type \in {"province", "territory"}
IsCensus(d) == d.type \in {"cd", "csd"}
NotProvinceOrTerritory(d) == ~IsProvinceOrTerritory(d)
NotCensus(d) == ~IsCensus(d)

\* the files the process may find on disk: the bundled one, one without any
\* province or territory row, one without any census division or subdivision
Registries ==
    {FullRegistry, SelectSeq(FullRegistry, NotProvinceOrTerritory),
     SelectSeq(FullRegistry, NotCensus)}

UnknownId == Prefix \o "/csd:9999999"

Ids(reg) == {reg[i].id : i \in DOMAIN reg}

\* Division.get: the row with that id, or no row
HasDivision(reg, id) == id \in Ids(reg)
DivisionGet(reg, id) == reg[CHOOSE i \in DOMAIN reg : reg[i].id = id]

\* header cells of table 1.4 (census division types); the delimiter is
\* space, en dash, space
CdDelim == " " \o EnDash \o " "
CdCells == <<"CTY" \o CdDelim \o "County / Comté",
             "RM" \o CdDelim \o "Regional municipality / Municipalité régionale">>
\* header cells of table 1.5 (census subdivision types); the delimiter is
\* non-breaking space, en dash, space
CsdDelim == Nbsp \o EnDash \o " "
CsdCells == <<"CY" \o CsdDelim \o "City / Cité",
              "RGM" \o CsdDelim \o "Regional municipality",
              "V" \o CsdDelim \o "Ville">>

\* what requests.get and lxml may hand back for one document: the table, an
\* exception, a table with a header cell that lacks the delimiter, a table
\* that lacks the row of a code the registry uses
Page(status, cells) == [status |-> status, cells |-> cells]
CdPages == {Page("ok", CdCells), Page("error", <<>>),
            Page("ok", CdCells \o <<"Total">>), Page("ok", SubSeq(CdCells, 1, 1))}
CsdPages == {Page("ok", CsdCells), Page("error", <<>>),
             Page("ok", <<"Total">> \o CsdCells), Page("ok", SubSeq(CsdCells, 1, 2))}
GoodPages == <<Page("ok", CdCells), Page("ok", CsdCells)>>

\* The answers the two requests of one call may get.  The second document is
\* requested only after the first was read and split, and neither is
\* requested once the map holds an entry.
PagePairs(map) ==
    IF DOMAIN map # {} THEN {GoodPages}
    ELSE {<<cd, csd>> : cd \in {GoodPages[1], Page("ok", SubSeq(CdCells, 1, 1))},
                        csd \in CsdPages}
         \cup {<<cd, GoodPages[2]>> : cd \in CdPages}

(***************************************************************************)
(* Python dictionaries are functions; the empty dictionary is <<>>.        *)
(***************************************************************************)
EmptyDict == <<>>
IsEmptyDict(d) == DOMAIN d = {}
Put(d, k, v) == [x \in DOMAIN d \cup {k} |-> IF x = k THEN v ELSE d[x]]

\* type_id: id.rsplit(":", 1)[1]
type_id(id) == SubSeq(id, RFind(id, ":", Len(id)) + 1, Len(id))

\* s[:n]
Take(s, n) == SubSeq(s, 1, IF Len(s) < n THEN Len(s) ELSE n)

RECURSIVE BuildMemo(_, _, _)
\* lines 76-78: one pass over Division.all
BuildMemo(reg, i, memo) ==
    IF i > Len(reg) THEN memo
    ELSE BuildMemo(reg, i + 1,
                   IF reg[i].type \in {"province", "territory"}
                   THEN Put(memo, reg[i].sgc, type_id(reg[i].id))
                   ELSE memo)

\* the function without its "if not memo" guard: every call reads the registry
AbbreviationRebuiltEveryCall(memo, reg, code) ==
    LET key == Take(type_id(code), 2)
    IN  With(BuildMemo(reg, 1, memo),
             LAMBDA built :
                 [memo |-> built,
                  scanned |-> TRUE,
                  error |-> IF key \in DOMAIN built THEN "none" ELSE "KeyError",
                  value |-> IF key \in DOMAIN built THEN built[key] ELSE NONE])

\* province_or_territory_abbreviation(code), as the memo it leaves, whether it
\* read the registry, and the value or the KeyError it ends with
province_or_territory_abbreviation(memo, reg, code) ==
    LET scan == IsEmptyDict(memo)
        key == Take(type_id(code), 2)
    IN  With(IF scan THEN BuildMemo(reg, 1, memo) ELSE memo,
             LAMBDA built :
                 [memo |-> built,
                  scanned |-> scan,
                  error |-> IF key \in DOMAIN built THEN "none" ELSE "KeyError",
                  value |-> IF key \in DOMAIN built THEN built[key] ELSE NONE])

RECURSIVE ParseCells(_, _, _, _)
\* lines 99-101 and 108-110: code, name = text.split(delim, 1);
\* names[code] = name.split(" / ", 1)[0]
ParseCells(cells, i, delim, names) ==
    IF i > Len(cells) THEN [error |-> "none", names |-> names]
    ELSE LET text == cells[i]
             p == Find(text, delim, 1)
             code == SubSeq(text, 1, p - 1)
             name == SubSeq(text, p + Len(delim), Len(text))
             q == Find(name, " / ", 1)
             first == IF q = 0 THEN name ELSE SubSeq(name, 1, q - 1)
         IN  IF p = 0 THEN [error |-> "ValueError", names |-> names]
             ELSE ParseCells(cells, i + 1, delim, Put(names, code, first))

RECURSIVE Populate(_, _, _, _, _)
\* lines 113-117: fills ocdid_to_type_name_map row by row, and stops at the
\* first classification code the tables do not hold
Populate(reg, i, cdNames, csdNames, map) ==
    IF i > Len(reg) THEN [error |-> "none", map |-> map]
    ELSE LET d == reg[i]
             names == IF d.type = "cd" THEN cdNames ELSE csdNames
         IN  IF d.type \notin {"cd", "csd"}
             THEN Populate(reg, i + 1, cdNames, csdNames, map)
             ELSE IF d.classification \notin DOMAIN names
             THEN [error |-> "KeyError", map |-> map]
             ELSE Populate(reg, i + 1, cdNames, csdNames,
                           Put(map, d.id, names[d.classification]))

\* the block without its "if not ocdid_to_type_name_map" guard: every call
\* requests the documents and fills the map again
LoadTypeNamesEveryCall(map, reg, cdPage, csdPage) ==
    LET Stop(error, fetched) ==
            [error |-> error, map |-> map, fetched |-> fetched, scanned |-> FALSE]
    IN  IF cdPage.status = "error" THEN Stop("RequestException", 1)
        ELSE IF csdPage.status = "error" THEN Stop("RequestException", 2)
        ELSE With(Populate(reg, 1, ParseCells(cdPage.cells, 1, CdDelim, EmptyDict).names,
                           ParseCells(csdPage.cells, 1, CsdDelim, EmptyDict).names, map),
                  LAMBDA filled : [error |-> filled.error, map |-> filled.map,
                                   fetched |-> 2, scanned |-> TRUE])

\* lines 93-117: the block guarded by "if not ocdid_to_type_name_map", as the
\* map it leaves, the number of documents requested, whether the registry
\* was read, and the error it ends with
LoadTypeNames(map, reg, cdPage, csdPage) ==
    LET Stop(error, fetched) ==
            [error |-> error, map |-> map, fetched |-> fetched, scanned |-> FALSE]
        Fill(cd, csd) ==
            With(Populate(reg, 1, cd.names, csd.names, map),
                 LAMBDA filled : [error |-> filled.error, map |-> filled.map,
                                  fetched |-> 2, scanned |-> TRUE])
        Second(cd) ==
            IF csdPage.status = "error" THEN Stop("RequestException", 2)
            ELSE With(ParseCells(csdPage.cells, 1, CsdDelim, EmptyDict),
                      LAMBDA csd : IF csd.error # "none" THEN Stop(csd.error, 2)
                                   ELSE Fill(cd, csd))
    IN  IF ~IsEmptyDict(map) THEN Stop("none", 0)
        ELSE IF cdPage.status = "error" THEN Stop("RequestException", 1)
        ELSE With(ParseCells(cdPage.cells, 1, CdDelim, EmptyDict),
                  LAMBDA cd : IF cd.error # "none" THEN Stop(cd.error, 1)
                              ELSE Second(cd))

(***************************************************************************)
(* get_definition                                                          *)
(***************************************************************************)
vowels == {"A", "À", "E", "É", "I", "Î", "O", "Ô", "U"}

RECURSIVE Remove(_, _)
\* re.sub("[...]", "", s) for a set of characters
Remove(s, chars) ==
    IF s = "" THEN ""
    ELSE (IF Char(s, 1) \in chars THEN "" ELSE Char(s, 1)) \o Remove(SubSeq(s, 2, Len(s)), chars)

RECURSIVE Split(_, _, _)
\* re.split("[...]", s): the pieces between separators, empty pieces kept;
\* cur is the piece being read
Split(s, seps, cur) ==
    IF s = "" THEN <<cur>>
    ELSE IF Char(s, 1) \in seps THEN <<cur>> \o Split(SubSeq(s, 2, Len(s)), seps, "")
    ELSE Split(SubSeq(s, 2, Len(s)), seps, cur \o Char(s, 1))

\* str.capitalize()
Capitalize(w) ==
    IF w = "" THEN "" ELSE UpperChar(Char(w, 1)) \o Lower(SubSeq(w, 2, Len(w)))

\* line 187: word if re.match("[A-Z]", word) else word.capitalize()
ClassWord(w) ==
    IF w # "" /\ Contains(AsciiUpper, Char(w, 1)) THEN w ELSE Capitalize(w)

RECURSIVE JoinWords(_, _)
JoinWords(words, i) ==
    IF i > Len(words) THEN "" ELSE ClassWord(words[i]) \o JoinWords(words, i + 1)

\* lines 185-190
ExpectedClassName(name, aggregation) ==
    LET stripped == Remove(name, {"'", "."})
        dashed == Replace(Replace(stripped, EmDash, "-"), EnDash, "-")
        class_name_parts == Split(dashed, {" ", "-"}, "")
    IN  unidecode(JoinWords(class_name_parts, 1))
        \o (IF aggregation THEN "Municipalities" ELSE "")

\* the pattern chosen without looking at aggregation
ProvinceModuleNameNoSuffix(ocd_type_id, aggregation) == "ca_" \o ocd_type_id

\* lines 131-132
ProvinceModuleName(ocd_type_id, aggregation) ==
    IF aggregation THEN "ca_" \o ocd_type_id \o "_municipalities"
    ELSE "ca_" \o ocd_type_id

\* the branches in another order: the special cases before aggregation
ProvinceNameSpecialFirst(division, ocd_type_id, aggregation) ==
    IF ocd_type_id \in {"nl", "ns"} THEN division.name \o " House of Assembly"
    ELSE IF ocd_type_id = "qc" THEN "Assemblée nationale du Québec"
    ELSE IF aggregation THEN division.name \o " Municipalities"
    ELSE "Legislative Assembly of " \o division.name

\* lines 133-140
ProvinceName(division, ocd_type_id, aggregation) ==
    IF aggregation THEN division.name \o " Municipalities"
    ELSE IF ocd_type_id \in {"nl", "ns"} THEN division.name \o " House of Assembly"
    ELSE IF ocd_type_id = "qc" THEN "Assemblée nationale du Québec"
    ELSE "Legislative Assembly of " \o division.name

\* lines 146-149
CdName(division, infix) ==
    division.name \o " "
    \o (IF infix = "Regional municipality" THEN "Regional" ELSE infix) \o " Council"

\* lines 161-168
CsdName(division, infix) ==
    division.name \o " "
    \o (IF infix \in {"Municipality", "Specialized municipality"} THEN "Municipal"
        ELSE IF infix = "District municipality" THEN "District"
        ELSE IF infix = "Regional municipality" THEN "Regional"
        ELSE infix)
    \o " Council"

\* lines 156-159
QuebecCsdName(division) ==
    IF Char(division.name, 1) \in vowels
    THEN "Conseil municipal d'" \o division.name
    ELSE "Conseil municipal de " \o division.name

\* lines 174-179
ArrondissementName(division) ==
    IF Char(division.name, 1) \in vowels
    THEN "Conseil d'arrondissement d'" \o division.name
    ELSE IF Take(division.name, 3) = "Le "
    THEN "Conseil d'arrondissement du " \o SubSeq(division.name, 4, Len(division.name))
    ELSE "Conseil d'arrondissement de " \o division.name

Failed(error, memo, scanned) ==
    [error |-> error, module_name |-> NONE, name |-> NONE, memo |-> memo, scanned |-> scanned]

Derived(module_name, name, looked) ==
    [error |-> "none", module_name |-> module_name, name |-> name,
     memo |-> looked.memo, scanned |-> looked.scanned]

\* lines 142-168: a census division or subdivision
CensusNames(division, looked, map) ==
    LET module_name == "ca_" \o looked.value \o "_" \o slug(division.name)
    IN  IF looked.error # "none" THEN Failed(looked.error, looked.memo, looked.scanned)
        ELSE IF division.type = "csd" /\ Take(type_id(division.id), 2) = "24"
        THEN Derived(module_name, QuebecCsdName(division), looked)
        ELSE IF division.id \notin DOMAIN map
        THEN Failed("KeyError", looked.memo, looked.scanned)
        ELSE IF division.type = "cd"
        THEN Derived(module_name, CdName(division, map[division.id]), looked)
        ELSE Derived(module_name, CsdName(division, map[division.id]), looked)

\* lines 170-179
ArrondissementNames(division, parent, looked) ==
    IF looked.error # "none" THEN Failed(looked.error, looked.memo, looked.scanned)
    ELSE Derived("ca_" \o looked.value \o "_" \o slug(parent.name) \o "_" \o slug(division.name),
                 ArrondissementName(division), looked)

\* lines 126-182: the module name and the body name of one division, with the
\* memo province_or_territory_abbreviation leaves behind
DeriveNames(division, aggregation, memo, map, reg) ==
    LET untouched == [memo |-> memo, scanned |-> FALSE]
        ocd_type_id == type_id(division.id)
    IN  CASE division.type = "country" ->
                Derived("ca", "Parliament of Canada", untouched)
          [] division.type \in {"province", "territory"} ->
                Derived(ProvinceModuleName(ocd_type_id, aggregation),
                        ProvinceName(division, ocd_type_id, aggregation), untouched)
          [] division.type \in {"cd", "csd"} ->
                With(province_or_territory_abbreviation(memo, reg, division.id),
                     LAMBDA looked : CensusNames(division, looked, map))
          [] division.type = "arrondissement" ->
                IF ~HasDivision(reg, division.parent)
                THEN Failed("DivisionNotFound", memo, FALSE)
                ELSE With(province_or_territory_abbreviation(memo, reg, division.parent),
                          LAMBDA looked :
                              ArrondissementNames(division,
                                                  DivisionGet(reg, division.parent), looked))
          [] OTHER -> Failed("Exception", memo, FALSE)

NoExpected ==
    [module_name |-> NONE, name |-> NONE, class_name |-> NONE, url |-> NONE,
     division_name |-> NONE]

\* lines 119-198, after the map was loaded
Define(division_id, aggregation, memo, reg, loaded) ==
    LET Raise(error, m, scanned) ==
            [error |-> error, expected |-> NoExpected, memo |-> m, map |-> loaded.map,
             fetched |-> loaded.fetched, scanned_types |-> loaded.scanned,
             scanned_memo |-> scanned]
        Return(division, derived) ==
            IF derived.error # "none"
            THEN Raise(derived.error, derived.memo, derived.scanned)
            ELSE [error |-> "none",
                  expected |-> [module_name |-> derived.module_name,
                                name |-> derived.name,
                                class_name |-> ExpectedClassName(division.name, aggregation),
                                url |-> division.url,
                                division_name |-> division.name],
                  memo |-> derived.memo, map |-> loaded.map,
                  fetched |-> loaded.fetched, scanned_types |-> loaded.scanned,
                  scanned_memo |-> derived.scanned]
    IN  IF loaded.error # "none" THEN Raise(loaded.error, memo, FALSE)
        ELSE IF ~HasDivision(reg, division_id) THEN Raise("DivisionNotFound", memo, FALSE)
        ELSE With(DivisionGet(reg, division_id),
                  LAMBDA division :
                      With(DeriveNames(division, aggregation, memo, loaded.map, reg),
                           LAMBDA derived : Return(division, derived)))

\* get_definition(division_id, aggregation) run against the two memo
\* dictionaries: the error it raises or the record it returns, the
\* dictionaries it leaves, and what it read on the way
get_definition(division_id, aggregation, memo, map, reg, cdPage, csdPage) ==
    With(LoadTypeNames(map, reg, cdPage, csdPage),
         LAMBDA loaded : Define(division_id, aggregation, memo, reg, loaded))

\* an exception leaving tidy, with the line of tasks.py that raised it
Raise(error, line) == [error |-> error, line |-> line]
NoRaise == Raise("none", 0)

TidyIdle ==
    /\ order = <<>>
    /\ disk = <<>>
    /\ tidy_pc = "idle"
    /\ previous = "none"
    /\ position = 0
    /\ division_ids = {}
    /\ jurisdiction_ids = {}
    /\ printed = <<>>
    /\ rewrites = {}
    /\ defined = <<>>
    /\ raised = NoRaise

NoCall ==
    [op |-> "none", division_id |-> NONE, aggregation |-> FALSE, error |-> "none",
     expected |-> NoExpected, value |-> NONE]

MemoIdle ==
    /\ registry = <<>>
    /\ province_or_territory_abbreviation_memo = <<>>
    /\ ocdid_to_type_name_map = <<>>
    /\ calls = 0
    /\ last_call = NoCall
    /\ memo_scans = 0
    /\ documents_fetched = 0

SlugInit ==
    /\ slug_name \in NamesUpTo(MaxNameLen)
    /\ slug_once = NONE
    /\ slug_twice = NONE
    /\ slug_pc = "name"
    /\ MemoIdle
    /\ TidyIdle

SlugFirst ==
    /\ slug_pc = "name"
    /\ slug_once' = slug(slug_name)
    /\ slug_pc' = "once"
    /\ UNCHANGED <<slug_name, slug_twice, memo_vars, tidy_vars>>

SlugSecond ==
    /\ slug_pc = "once"
    /\ slug_twice' = slug(slug_once)
    /\ slug_pc' = "twice"
    /\ UNCHANGED <<slug_name, slug_once, memo_vars, tidy_vars>>

SlugNext == SlugFirst \/ SlugSecond

SpecSlug == SlugInit /\ [][SlugNext]_vars

\* C4: slug is idempotent: slugging a slug again gives the same text.
SlugIdempotent == slug_pc = "twice" => slug_twice = slug_once

(***************************************************************************)
(* One process calling get_definition and                                  *)
(* province_or_territory_abbreviation.                                     *)
(***************************************************************************)
SlugIdle ==
    /\ slug_name = ""
    /\ slug_once = NONE
    /\ slug_twice = NONE
    /\ slug_pc = "idle"

DefInit ==
    /\ registry \in Registries
    /\ province_or_territory_abbreviation_memo = EmptyDict
    /\ ocdid_to_type_name_map = EmptyDict
    /\ calls = 0
    /\ last_call = NoCall
    /\ memo_scans = 0
    /\ documents_fetched = 0
    /\ SlugIdle
    /\ TidyIdle

CallGetDefinition ==
    /\ calls < MaxCalls
    /\ \E division_id \in Ids(registry) \cup {UnknownId}, aggregation \in BOOLEAN,
          pages \in PagePairs(ocdid_to_type_name_map) :
          \E r \in {get_definition(division_id, aggregation,
                                  province_or_territory_abbreviation_memo,
                                  ocdid_to_type_name_map, registry, pages[1], pages[2])} :
              /\ province_or_territory_abbreviation_memo' = r.memo
              /\ ocdid_to_type_name_map' = r.map
              /\ memo_scans' = memo_scans + (IF r.scanned_memo THEN 1 ELSE 0)
              /\ documents_fetched' = documents_fetched + r.fetched
              /\ last_call' = [op |-> "get_definition", division_id |-> division_id,
                               aggregation |-> aggregation, error |-> r.error,
                               expected |-> r.expected, value |-> NONE]
    /\ calls' = calls + 1
    /\ UNCHANGED <<registry, slug_vars, tidy_vars>>

CallAbbreviation ==
    /\ calls < MaxCalls
    /\ \E code \in Ids(registry) \cup {UnknownId} :
          \E r \in {province_or_territory_abbreviation(
                       province_or_territory_abbreviation_memo, registry, code)} :
              /\ province_or_territory_abbreviation_memo' = r.memo
              /\ memo_scans' = memo_scans + (IF r.scanned THEN 1 ELSE 0)
              /\ last_call' = [op |-> "province_or_territory_abbreviation",
                               division_id |-> code, aggregation |-> FALSE,
                               error |-> r.error, expected |-> NoExpected,
                               value |-> r.value]
    /\ calls' = calls + 1
    /\ UNCHANGED <<registry, ocdid_to_type_name_map, documents_fetched, slug_vars,
                   tidy_vars>>

DefNext == CallGetDefinition \/ CallAbbreviation

SpecDef == DefInit /\ [][DefNext]_vars

\* the last call was a get_definition that returned a record
Returned == last_call.op = "get_definition" /\ last_call.error = "none"
LastDivision == DivisionGet(registry, last_call.division_id)

\* what get_definition returns now for the division of the last call
Expected(aggregation) ==
    get_definition(last_call.division_id, aggregation,
                   province_or_territory_abbreviation_memo, ocdid_to_type_name_map,
                   registry, GoodPages[1], GoodPages[2]).expected

AggregatedModuleName ==
    IF last_call.aggregation THEN last_call.expected.module_name
    ELSE Expected(TRUE).module_name
PlainModuleName ==
    IF last_call.aggregation THEN Expected(FALSE).module_name
    ELSE last_call.expected.module_name

\* C3 as stated: for every division get_definition accepts, the module name
\* with aggregation is the module name without it followed by "_municipalities".
MunicipalitiesSuffixEveryType ==
    Returned => AggregatedModuleName = PlainModuleName \o "_municipalities"

\* C3 as amended: the suffix is added for a province or a territory; for a
\* country, cd, csd or arrondissement the module name does not depend on
\* aggregation.
MunicipalitiesSuffixProvince ==
    Returned =>
        IF LastDivision.type \in {"province", "territory"}
        THEN AggregatedModuleName = PlainModuleName \o "_municipalities"
        ELSE AggregatedModuleName = PlainModuleName

MunicipalitiesSuffixWitness ==
    /\ Returned
    /\ last_call.aggregation
    /\ LastDivision.type = "territory"
    /\ last_call.expected.module_name = "ca_yt_municipalities"

\* C10: the body name of a province or territory: "<name> House of Assembly"
\* for nl and ns, the fixed French name for qc, "Legislative Assembly of
\* <name>" otherwise, and "<name> Municipalities" whenever aggregation is set.
ProvinceBodyName ==
    Returned /\ LastDivision.type \in {"province", "territory"} =>
        LET code == type_id(last_call.division_id)
            name == last_call.expected.name
        IN  IF last_call.aggregation THEN name = LastDivision.name \o " Municipalities"
            ELSE CASE code \in {"nl", "ns"} -> name = LastDivision.name \o " House of Assembly"
                   [] code = "qc" -> name = "Assemblée nationale du Québec"
                   [] OTHER -> name = "Legislative Assembly of " \o LastDivision.name

ProvinceBodyNameWitness ==
    /\ Returned
    /\ last_call.aggregation
    /\ type_id(last_call.division_id) = "qc"
    /\ LastDivision.type = "province"
    /\ last_call.expected.name = "Québec Municipalities"

\* C5 as stated: the registry is read to build the sgc map at most once per
\* process, whatever the first build found.
MemoBuiltOnce == memo_scans <= 1

\* C5 as amended: once the memo holds an entry no call reads the registry
\* for it again; a build that found no province or territory leaves the memo
\* empty and the next call reads the registry again.
MemoNotRebuilt ==
    [][~IsEmptyDict(province_or_territory_abbreviation_memo)
         => /\ memo_scans' = memo_scans
            /\ province_or_territory_abbreviation_memo'
                  = province_or_territory_abbreviation_memo]_vars

MemoNotRebuiltWitness ==
    /\ last_call.op = "province_or_territory_abbreviation"
    /\ calls >= 2
    /\ memo_scans = 1
    /\ ~IsEmptyDict(province_or_territory_abbreviation_memo)

\* C6: once ocdid_to_type_name_map is populated, no later get_definition
\* call requests a reference document or changes the map.
TypeNamesCached ==
    [][~IsEmptyDict(ocdid_to_type_name_map)
         => /\ documents_fetched' = documents_fetched
            /\ ocdid_to_type_name_map' = ocdid_to_type_name_map]_vars

TypeNamesCachedWitness ==
    /\ Returned
    /\ calls >= 2
    /\ documents_fetched = 2
    /\ Ids(SelectSeq(registry, IsCensus)) # {}
    /\ DOMAIN ocdid_to_type_name_map = Ids(SelectSeq(registry, IsCensus))

(***************************************************************************)
(* The jurisdiction modules on disk.  A file is the sequence of its lines; *)
(* no text tidy searches for holds a line break, so str.replace on the     *)
(* content is str.replace on every line.                                   *)
(***************************************************************************)
\* __init__.py of a jurisdiction module, written as ca_nb_moncton writes it;
\* an attribute given as NONE is not declared
Declared(attr, value) ==
    IF value = NONE THEN <<>> ELSE <<"    " \o attr \o " = '" \o value \o "'">>

ClassLines(class_name, classification, division_id, division_name, name, url) ==
    <<"class " \o class_name \o "(CanadianJurisdiction):">>
    \o Declared("classification", classification)
    \o Declared("division_id", division_id)
    \o Declared("division_name", division_name)
    \o Declared("name", name)
    \o Declared("url", url)

ImportLines == <<"from utils import CanadianJurisdiction">>

\* The text between the quotes of a string literal; None for the word None.
Literal(text) ==
    IF Len(text) >= 2 /\ Char(text, 1) = "'" /\ Char(text, Len(text)) = "'"
    THEN SubSeq(text, 2, Len(text) - 1)
    ELSE NONE

RECURSIVE Objects(_, _, _)
\* importlib.import_module: the values of module.__dict__ in the order the
\* file binds them: an imported name, or a class with the attributes its body
\* assigns.  objects is what was bound so far, the last one still open.
Objects(lines, i, objects) ==
    IF i > Len(lines) THEN objects
    ELSE LET line == lines[i]
             eq == Find(line, " = ", 1)
             paren == Find(line, "(", 1)
             last == objects[Len(objects)]
         IN  IF StartsWith(line, "from ") /\ Contains(line, " import ")
             THEN Objects(lines, i + 1,
                          Append(objects,
                                 [name |-> SubSeq(line, Find(line, " import ", 1) + 8, Len(line)),
                                  attrs |-> EmptyDict]))
             ELSE IF StartsWith(line, "class ") /\ paren > 0
             THEN Objects(lines, i + 1,
                          Append(objects, [name |-> SubSeq(line, 7, paren - 1),
                                           attrs |-> EmptyDict]))
             ELSE IF StartsWith(line, "    ") /\ eq > 0 /\ objects # <<>>
             THEN Objects(lines, i + 1,
                          [objects EXCEPT ![Len(objects)] =
                              [name |-> last.name,
                               attrs |-> Put(last.attrs, SubSeq(line, 5, eq - 1),
                                             Literal(SubSeq(line, eq + 3, Len(line))))]])
             ELSE Objects(lines, i + 1, objects)

\* getattr(obj, attr, default)
getattr(obj, attr, default) ==
    IF attr \in DOMAIN obj.attrs THEN obj.attrs[attr] ELSE default

\* a Python value that is neither None nor an empty string
Truthy(value) == value # NONE /\ value # ""

NoMetadata == [found |-> FALSE]

\* "{}".format(value)
Str(value) == IF value = NONE THEN "None" ELSE value

\* module_name_to_metadata on the objects of the imported module: the
\* dictionary built from the first object whose division_id is truthy, or,
\* when the loop ends without one, the None a Python function returns
module_name_to_metadata(objects) ==
    LET holders == {i \in DOMAIN objects : Truthy(getattr(objects[i], "division_id", NONE))}
        obj == objects[CHOOSE i \in holders : \A j \in holders : i <= j]
        division_id == getattr(obj, "division_id", NONE)
    IN  IF holders = {} THEN NoMetadata
        ELSE [found |-> TRUE,
              class_name |-> obj.name,
              division_id |-> division_id,
              division_name |-> getattr(obj, "division_name", NONE),
              name |-> getattr(obj, "name", NONE),
              url |-> getattr(obj, "url", NONE),
              classification |-> getattr(obj, "classification", NONE),
              jurisdiction_id |->
                  Replace(division_id, "ocd-division", "ocd-jurisdiction") \o "/"
                  \o Str(getattr(obj, "classification", "legislature"))]

(***************************************************************************)
(* tidy, one module at a time.                                             *)
(***************************************************************************)
Finding(module_name, finding, about) ==
    [module |-> module_name, finding |-> finding, about |-> about]

\* the check that adds the identifier whether or not it is already there and
\* never reports
NoDuplicateFindings(module_name, metadata, divisions, jurisdictions) ==
    [printed |-> <<>>,
     division_ids |-> divisions \cup {metadata.division_id},
     jurisdiction_ids |-> jurisdictions \cup {metadata.jurisdiction_id}]

\* lines 318-330
DuplicateFindings(module_name, metadata, divisions, jurisdictions) ==
    [printed |->
        (IF metadata.division_id \in divisions
         THEN <<Finding(module_name, "Duplicate division_id", metadata.division_id)>>
         ELSE <<>>)
        \o (IF metadata.jurisdiction_id \in jurisdictions
            THEN <<Finding(module_name, "Duplicate jurisdiction_id", metadata.jurisdiction_id)>>
            ELSE <<>>),
     division_ids |-> divisions \cup {metadata.division_id},
     jurisdiction_ids |-> jurisdictions \cup {metadata.jurisdiction_id}]

\* lines 341-342: urlsplit(url), and whether the scheme is not http or https
\* or a path, a query or a fragment follows the host
UrlLooksWrong(url) ==
    LET p == Find(url, "://", 1)
        scheme == IF p = 0 THEN "" ELSE SubSeq(url, 1, p - 1)
        rest == IF p = 0 THEN url ELSE SubSeq(url, p + 3, Len(url))
    IN  \/ scheme \notin {"http", "https"}
        \/ Contains(rest, "/") \/ Contains(rest, "?") \/ Contains(rest, "#")

\* lines 334-343
StyleAndUrlFindings(module_name, metadata, expected, styles) ==
    (IF metadata.division_id \notin styles
     THEN <<Finding(module_name, "Missing member style of address", metadata.division_id),
            Finding(module_name, "Missing leader style of address", metadata.division_id)>>
     ELSE <<>>)
    \o (IF Truthy(metadata.url) /\ ~Truthy(expected.url) /\ UrlLooksWrong(metadata.url)
        THEN <<Finding(module_name, "Check", metadata.url)>>
        ELSE <<>>)

\* lines 346-351: the two warnings.  "{:<60}".format(None) raises TypeError,
\* so a warning about a value that is None ends the run instead of printing.
NameFindings(module_name, metadata, expected) ==
    LET nameOff == metadata.name # expected.name
        classOff == metadata.classification # "legislature"
        first == IF nameOff /\ metadata.name # NONE
                 THEN <<Finding(module_name, "Expected name", expected.name)>>
                 ELSE <<>>
    IN  IF nameOff /\ metadata.name = NONE
        THEN [raised |-> Raise("TypeError", 348), printed |-> <<>>]
        ELSE IF classOff /\ metadata.classification = NONE
        THEN [raised |-> Raise("TypeError", 351), printed |-> first]
        ELSE [raised |-> NoRaise,
              printed |-> first \o (IF classOff
                                    THEN <<Finding(module_name, "Expected legislature",
                                                   metadata.classification)>>
                                    ELSE <<>>)]

\* content.replace(old, new) on a file
ReplaceLines(lines, old, new) == [i \in DOMAIN lines |-> Replace(lines[i], old, new)]

\* lines 355-363: every .py file of the directory is read and written back
ClassNameRewrite(files, class_name, expected) ==
    IF class_name = expected.class_name THEN files
    ELSE [basename \in DOMAIN files |->
            IF EndsWith(basename, ".py")
            THEN ReplaceLines(files[basename], class_name \o "(", expected.class_name \o "(")
            ELSE files[basename]]

\* line 367
NeedsDivisionRewrite(metadata, expected) ==
    \/ metadata.division_name # expected.division_name
    \/ (Truthy(expected.url) /\ metadata.url # expected.url)

\* lines 368-375: __init__.py is read, opened for writing (which empties it),
\* and written once both replacements are done; "= " + None and
\* content.replace(None, ...) raise TypeError before the write
DivisionRewrite(files, metadata, expected) ==
    LET content == files["__init__.py"]
        nameOff == metadata.division_name # expected.division_name
        urlOff == Truthy(expected.url) /\ metadata.url # expected.url
        named == IF nameOff
                 THEN ReplaceLines(content, "= " \o metadata.division_name,
                                   "= " \o expected.division_name)
                 ELSE content
        linked == IF urlOff THEN ReplaceLines(named, metadata.url, expected.url) ELSE named
    IN  IF ~NeedsDivisionRewrite(metadata, expected) THEN [raised |-> NoRaise, files |-> files]
        ELSE IF nameOff /\ metadata.division_name = NONE
        THEN [raised |-> Raise("TypeError", 372),
              files |-> [files EXCEPT !["__init__.py"] = <<>>]]
        ELSE IF urlOff /\ metadata.url = NONE
        THEN [raised |-> Raise("TypeError", 374),
              files |-> [files EXCEPT !["__init__.py"] = <<>>]]
        ELSE [raised |-> NoRaise, files |-> [files EXCEPT !["__init__.py"] = linked]]

\* the test that passes over the candidates directories only
SkippedCandidatesOnly(module_name) == EndsWith(module_name, "_candidates")

\* line 313
Skipped(module_name) ==
    EndsWith(module_name, "_candidates") \/ EndsWith(module_name, "_municipalities")

\* what one pass of the loop of tidy leaves behind
Outcome(exception, files, findings, sets, d, steps, asked) ==
    [raised |-> exception, files |-> files, printed |-> findings,
     division_ids |-> sets.division_ids, jurisdiction_ids |-> sets.jurisdiction_ids,
     memo |-> d.memo, map |-> d.map, fetched |-> d.fetched,
     scanned_memo |-> d.scanned_memo, rewrites |-> steps, defined |-> asked]

\* lines 334-379, once metadata and expected are known
Compare(module_name, files, metadata, expected, styles, sets, d, asked) ==
    LET before == sets.printed \o StyleAndUrlFindings(module_name, metadata, expected, styles)
        renamed == ClassNameRewrite(files, metadata.class_name, expected)
        step6 == IF metadata.class_name # expected.class_name THEN {"class_name"} ELSE {}
        step7 == IF NeedsDivisionRewrite(metadata, expected) THEN {"division"} ELSE {}
        last == IF module_name # expected.module_name
                THEN <<Finding(module_name, "Expected module", expected.module_name)>>
                ELSE <<>>
    IN  With(NameFindings(module_name, metadata, expected),
             LAMBDA warned :
               IF warned.raised # NoRaise
               THEN Outcome(warned.raised, files, before \o warned.printed, sets, d, {},
                            asked)
               ELSE With(DivisionRewrite(renamed, metadata, expected),
                         LAMBDA written :
                           Outcome(written.raised, written.files,
                                   before \o warned.printed
                                   \o (IF written.raised = NoRaise THEN last ELSE <<>>),
                                   sets, d, step6 \cup step7, asked)))

\* lines 313-379 for one module
TidyModule(module_name, files, divisions, jurisdictions, memo, map, styles, reg, pages) ==
    LET idle == [memo |-> memo, map |-> map, fetched |-> 0, scanned_memo |-> FALSE]
        same == [division_ids |-> divisions, jurisdiction_ids |-> jurisdictions]
        aggregation == EndsWith(module_name, "_municipalities")
        Defined(metadata, sets) ==
            With(get_definition(metadata.division_id, aggregation, memo, map, reg,
                                pages[1], pages[2]),
                 LAMBDA d :
                   IF d.error # "none"
                   THEN Outcome(Raise(d.error, 332), files, sets.printed, sets, d, {},
                                <<[division_id |-> metadata.division_id,
                                   aggregation |-> aggregation]>>)
                   ELSE Compare(module_name, files, metadata, d.expected, styles, sets, d,
                                <<[division_id |-> metadata.division_id,
                                   aggregation |-> aggregation]>>))
    IN  IF Skipped(module_name) THEN Outcome(NoRaise, files, <<>>, same, idle, {}, <<>>)
        ELSE With(module_name_to_metadata(Objects(files["__init__.py"], 1, <<>>)),
                  LAMBDA metadata :
                    IF ~metadata.found
                    THEN Outcome(Raise("TypeError", 319), files, <<>>, same, idle, {}, <<>>)
                    ELSE With(DuplicateFindings(module_name, metadata, divisions,
                                                jurisdictions),
                              LAMBDA sets : Defined(metadata, sets)))

(***************************************************************************)
(* The modules tidy may find.                                              *)
(***************************************************************************)
MonctonId == Prefix \o "/csd:1307022"

Module(name, init, people) ==
    [name |-> name, files |-> [basename \in {"__init__.py", "people.py"} |->
                                  IF basename = "__init__.py" THEN init ELSE people]]

Scraper(class_name) == <<"class " \o class_name \o "PersonScraper(CanadianScraper):">>

\* ca_nb_moncton as the repository holds it
Moncton(directory, class_name, classification, division_name, url) ==
    Module(directory,
           ImportLines \o ClassLines(class_name, classification, MonctonId, division_name,
                                     "Moncton City Council", url),
           Scraper(class_name))

Catalog == {
    Moncton("ca_nb_moncton", "Moncton", "legislature", "Moncton", "http://www.moncton.ca"),
    \* a misspelt division name, an outdated url
    Moncton("ca_nb_moncton", "Moncton", "legislature", "Monckton", "http://www.moncton.ca"),
    Moncton("ca_nb_moncton", "Moncton", "legislature", "Moncton", "http://moncton.ca"),
    \* a class named after the wrong place, next to a class whose name ends in it
    Module("ca_nb_moncton",
           ImportLines \o ClassLines("Dieppe", "legislature", MonctonId, "Moncton",
                                     "Moncton City Council", "http://www.moncton.ca"),
           Scraper("Dieppe") \o <<"class GreaterDieppe(Dieppe):">>),
    \* the same division in a second directory, once as another kind of body
    Moncton("ca_nb_moncton_old", "Moncton", "legislature", "Moncton", "http://www.moncton.ca"),
    Moncton("ca_nb_moncton_mayor", "Moncton", "executive", "Moncton", "http://www.moncton.ca"),
    \* directories tidy passes over
    Moncton("ca_nb_moncton_candidates", "Moncton", "legislature", "Moncton",
            "http://www.moncton.ca"),
    Module("ca_ns_municipalities",
           ImportLines \o ClassLines("NovaScotiaMunicipalities", "legislature",
                                     Prefix \o "/province:ns", "Nova Scotia",
                                     "Nova Scotia Municipalities", NONE),
           Scraper("NovaScotiaMunicipalities")),
    \* a url the registry does not hold
    Module("ca_ns_cape_breton",
           ImportLines \o ClassLines("CapeBreton", "legislature", Prefix \o "/csd:1217030",
                                     "Cape Breton", "Cape Breton Regional Council",
                                     "http://www.cbrm.ns.ca/council"),
           Scraper("CapeBreton")),
    \* attributes left out: name, classification, division_name
    Module("ca_ns",
           ImportLines \o ClassLines("NovaScotia", "legislature", Prefix \o "/province:ns",
                                     "Nova Scotia", NONE, "http://nslegislature.ca"),
           Scraper("NovaScotia")),
    Module("ca_qc_quebec",
           ImportLines \o ClassLines("Quebec", NONE, Prefix \o "/csd:2423027", "Québec",
                                     "Conseil municipal de Québec", NONE),
           Scraper("Quebec")),
    Module("ca_yt",
           ImportLines \o ClassLines("Yukon", "legislature", Prefix \o "/territory:yt", NONE,
                                     "Legislative Assembly of Yukon", NONE),
           Scraper("Yukon")),
    \* no object with a division_id; two objects with one
    Module("ca_nb",
           ImportLines \o ClassLines("NewBrunswick", "legislature", NONE, "New Brunswick",
                                     "Legislative Assembly of New Brunswick", NONE),
           Scraper("NewBrunswick")),
    Module("ca_nl",
           ImportLines
           \o ClassLines("NewfoundlandAndLabrador", "legislature", Prefix \o "/province:nl",
                         "Newfoundland and Labrador",
                         "Newfoundland and Labrador House of Assembly", NONE)
           \o ClassLines("Moncton", "legislature", MonctonId, "Moncton",
                         "Moncton City Council", "http://www.moncton.ca"),
           Scraper("NewfoundlandAndLabrador"))
}

\* the identifiers the style-of-address spreadsheet lists
StyleSheet == {MonctonId, Prefix \o "/province:ns", Prefix \o "/territory:yt"}

RECURSIVE Listings(_)
\* directory listings of at most n modules, in any order, names distinct
Listings(n) ==
    IF n = 0 THEN {<<>>}
    ELSE LET shorter == Listings(n - 1)
         IN  shorter \cup
             {Append(l, m) : l \in {k \in shorter : Len(k) = n - 1},
                             m \in Catalog}

DistinctNames(l) == \A i, j \in DOMAIN l : i # j => l[i].name # l[j].name

TidyInit ==
    /\ \E l \in {k \in Listings(MaxModules) : k # <<>> /\ DistinctNames(k)} :
          /\ order = [i \in DOMAIN l |-> l[i].name]
          /\ disk = [name \in {l[i].name : i \in DOMAIN l} |->
                        (CHOOSE m \in {l[i] : i \in DOMAIN l} : m.name = name).files]
    /\ tidy_pc = "idle"
    /\ previous = "none"
    /\ position = 0
    /\ division_ids = {}
    /\ jurisdiction_ids = {}
    /\ printed = <<>>
    /\ rewrites = {}
    /\ defined = <<>>
    /\ raised = NoRaise
    /\ registry = FullRegistry
    /\ province_or_territory_abbreviation_memo = EmptyDict
    /\ ocdid_to_type_name_map = EmptyDict
    /\ calls = 0
    /\ last_call = NoCall
    /\ memo_scans = 0
    /\ documents_fetched = 0
    /\ SlugIdle

\* invoke tidy: a new process, whose memo dictionaries are empty; lines
\* 297-311 with the three sheets read
TidyStart ==
    /\ tidy_pc \in {"idle", "done", "aborted"}
    /\ tidy_pc' = "running"
    /\ previous' = (IF tidy_pc = "idle" THEN "none" ELSE tidy_pc)
    /\ position' = 1
    /\ division_ids' = {}
    /\ jurisdiction_ids' = {}
    /\ printed' = <<>>
    /\ rewrites' = {}
    /\ defined' = <<>>
    /\ raised' = NoRaise
    /\ province_or_territory_abbreviation_memo' = EmptyDict
    /\ ocdid_to_type_name_map' = EmptyDict
    /\ memo_scans' = 0
    /\ documents_fetched' = 0
    /\ UNCHANGED <<order, disk, registry, calls, last_call, slug_vars>>

\* lines 299-308 with a sheet that cannot be read: requests.get raises
TidyStartFails ==
    /\ tidy_pc \in {"idle", "done", "aborted"}
    /\ tidy_pc' = "aborted"
    /\ previous' = (IF tidy_pc = "idle" THEN "none" ELSE tidy_pc)
    /\ position' = 0
    /\ division_ids' = {}
    /\ jurisdiction_ids' = {}
    /\ printed' = <<>>
    /\ rewrites' = {}
    /\ defined' = <<>>
    /\ raised' = Raise("RequestException", 300)
    /\ province_or_territory_abbreviation_memo' = EmptyDict
    /\ ocdid_to_type_name_map' = EmptyDict
    /\ memo_scans' = 0
    /\ documents_fetched' = 0
    /\ UNCHANGED <<order, disk, registry, calls, last_call, slug_vars>>

\* one pass of the loop at line 312
TidyLoop ==
    /\ tidy_pc = "running"
    /\ position <= Len(order)
    /\ \E pages \in PagePairs(ocdid_to_type_name_map) :
       \E out \in {TidyModule(order[position], disk[order[position]], division_ids,
                              jurisdiction_ids, province_or_territory_abbreviation_memo,
                              ocdid_to_type_name_map, StyleSheet, registry, pages)} :
          /\ disk' = [disk EXCEPT ![order[position]] = out.files]
          /\ division_ids' = out.division_ids
          /\ jurisdiction_ids' = out.jurisdiction_ids
          /\ printed' = printed \o out.printed
          /\ rewrites' = rewrites \cup {<<order[position], step>> : step \in out.rewrites}
          /\ defined' = defined \o out.defined
          /\ province_or_territory_abbreviation_memo' = out.memo
          /\ ocdid_to_type_name_map' = out.map
          /\ memo_scans' = memo_scans + (IF out.scanned_memo THEN 1 ELSE 0)
          /\ documents_fetched' = documents_fetched + out.fetched
          /\ raised' = out.raised
          /\ tidy_pc' = (IF out.raised = NoRaise THEN "running" ELSE "aborted")
          /\ position' = (IF out.raised = NoRaise THEN position + 1 ELSE position)
    /\ UNCHANGED <<order, registry, calls, last_call, previous, slug_vars>>

\* the loop has no module left: tidy returns
TidyReturn ==
    /\ tidy_pc = "running"
    /\ position > Len(order)
    /\ tidy_pc' = "done"
    /\ UNCHANGED <<order, disk, previous, position, division_ids, jurisdiction_ids,
                   printed, rewrites, defined, raised, memo_vars, slug_vars>>

TidyNext == TidyStart \/ TidyStartFails \/ TidyLoop \/ TidyReturn

SpecTidy == TidyInit /\ [][TidyNext]_vars

(***************************************************************************)
(* Properties of tidy.                                                     *)
(***************************************************************************)
\* the metadata tidy reads from a module as the disk holds it now
MetadataOf(module_name) ==
    module_name_to_metadata(Objects(disk[module_name]["__init__.py"], 1, <<>>))

Audited(i) == ~Skipped(order[i]) /\ MetadataOf(order[i]).found

\* how many findings of one kind name one module
Count(finding, module_name) ==
    Cardinality({i \in DOMAIN printed : /\ printed[i].finding = finding
                                        /\ printed[i].module = module_name})

Duplicates == {i \in DOMAIN printed :
                   printed[i].finding \in {"Duplicate division_id", "Duplicate jurisdiction_id"}}

\* C2 as stated: two audited modules with one division_id give exactly one
\* finding for the collision, printed for the module processed second.
OneFindingPerCollision ==
    (/\ tidy_pc = "done"
     /\ Len(order) = 2
     /\ Audited(1) /\ Audited(2)
     /\ MetadataOf(order[1]).division_id = MetadataOf(order[2]).division_id)
    => /\ Cardinality(Duplicates) = 1
       /\ \A i \in Duplicates : printed[i].module = order[2]

\* C2 as amended: a module gets exactly one "Duplicate division_id" finding
\* when an audited module before it declares the same division_id and none
\* otherwise, so the first of two colliding modules gets none; it gets a
\* "Duplicate jurisdiction_id" finding as well, by the same rule, when the
\* jurisdiction_id (division and classification) collides too.
DuplicateFindingsPerModule ==
    tidy_pc = "done" =>
        \A j \in DOMAIN order :
            Audited(j) =>
                /\ Count("Duplicate division_id", order[j]) =
                      (IF \E i \in 1..(j - 1) :
                              /\ Audited(i)
                              /\ MetadataOf(order[i]).division_id
                                    = MetadataOf(order[j]).division_id
                       THEN 1 ELSE 0)
                /\ Count("Duplicate jurisdiction_id", order[j]) =
                      (IF \E i \in 1..(j - 1) :
                              /\ Audited(i)
                              /\ MetadataOf(order[i]).jurisdiction_id
                                    = MetadataOf(order[j]).jurisdiction_id
                       THEN 1 ELSE 0)

DuplicateFindingsWitness ==
    /\ tidy_pc = "done"
    /\ Len(order) = 2
    /\ Audited(1) /\ Audited(2)
    /\ MetadataOf(order[1]).division_id = MetadataOf(order[2]).division_id
    /\ MetadataOf(order[1]).jurisdiction_id # MetadataOf(order[2]).jurisdiction_id
    /\ Count("Duplicate division_id", order[2]) = 1
    /\ Cardinality(Duplicates) = 1

\* C1: a run of tidy that follows a complete run rewrites no file: it enters
\* neither the class-name rewrite nor the __init__.py rewrite for any module.
SecondRunRewritesNothing == previous = "done" => rewrites = {}

\* C8: on a module without an object holding a division_id,
\* module_name_to_metadata fails with a not-found error of its own (raised
\* inside lines 427-446) instead of returning a value.
NoMetadataIsNotFoundError ==
    [][(/\ tidy_pc = "running"
        /\ position \in DOMAIN order
        /\ ~Skipped(order[position])
        /\ ~MetadataOf(order[position]).found)
       => /\ raised'.error = "NotFoundError"
          /\ raised'.line \in 427..446]_vars

\* C9: a finding never raises: no run ends in the lines that print the name
\* and classification warnings.
FindingsNeverRaise == raised.line \notin {348, 351}

IdentifierChars ==
    LET all == UpperAlpha \o LowerAlpha \o "0123456789_"
    IN  {Char(all, i) : i \in 1..Len(all)}

RECURSIVE IdentifierReplace(_, _, _, _)
\* text with old( replaced by new( wherever old is a complete identifier,
\* that is, at the start of the text or after a character no identifier holds
IdentifierReplace(text, old, new, boundary) ==
    IF text = "" THEN ""
    ELSE IF boundary /\ StartsWith(text, old \o "(")
    THEN new \o "(" \o IdentifierReplace(SubSeq(text, Len(old) + 2, Len(text)), old, new, TRUE)
    ELSE Char(text, 1)
         \o IdentifierReplace(SubSeq(text, 2, Len(text)), old, new,
                              Char(text, 1) \notin IdentifierChars)

\* C7: the class-name rewrite changes old( to new( only where old is the
\* complete identifier, and writes everything else of every .py file back as
\* it was (__init__.py is compared when the division rewrite leaves it alone).
ClassRenameOnlyWholeIdentifier ==
    [][(/\ tidy_pc = "running"
        /\ position \in DOMAIN order
        /\ <<order[position], "class_name">> \in rewrites')
       => LET m == order[position]
              old == MetadataOf(m).class_name
              new == ExpectedClassName(
                         DivisionGet(registry, MetadataOf(m).division_id).name, FALSE)
          IN  \A basename \in DOMAIN disk[m] :
                  (basename # "__init__.py" \/ <<m, "division">> \notin rewrites')
                  => disk'[m][basename] =
                        IF EndsWith(basename, ".py")
                        THEN [i \in DOMAIN disk[m][basename] |->
                                 IdentifierReplace(disk[m][basename][i], old, new, TRUE)]
                        ELSE disk[m][basename]]_vars

\* the metadata a fresh import reads from the files of one module
MetadataIn(files) == module_name_to_metadata(Objects(files["__init__.py"], 1, <<>>))

\* C11: whenever tidy enters the __init__.py rewrite for a module and writes
\* the file, extracting the metadata of the written file gives the registry's
\* division name, and the registry's url when the registry holds one; the
\* files write their values as quoted literals.
DivisionRewriteAssignsExpected ==
    [][(/\ tidy_pc = "running"
        /\ position \in DOMAIN order
        /\ <<order[position], "division">> \in rewrites'
        /\ raised' = NoRaise)
       => LET m == order[position]
              division == DivisionGet(registry, MetadataOf(m).division_id)
              after == MetadataIn(disk'[m])
          IN  /\ after.found
              /\ after.division_name = division.name
              /\ Truthy(division.url) => after.url = division.url]_vars

\* C12: no step of tidy loses file content: every file keeps all its lines,
\* changed by the substitutions or not, also when the run aborts inside a
\* correction.
RewriteKeepsContent ==
    [][\A m \in DOMAIN disk : \A basename \in DOMAIN disk[m] :
           /\ Len(disk'[m][basename]) = Len(disk[m][basename])
           /\ disk'[m][basename] # <<>>]_vars

\* C13: after any sequence of get_definition calls, failed ones included,
\* ocdid_to_type_name_map is empty or holds an entry for every cd and csd
\* division of the registry, so no call skips population on a partly filled
\* map.
TypeNameMapEmptyOrComplete ==
    \/ IsEmptyDict(ocdid_to_type_name_map)
    \/ \A id \in Ids(SelectSeq(registry, IsCensus)) : id \in DOMAIN ocdid_to_type_name_map

\* the modules of the listing whose name ends in "_candidates" or
\* "_municipalities"
PassedOver == {i \in DOMAIN order : \/ EndsWith(order[i], "_candidates")
                                    \/ EndsWith(order[i], "_municipalities")}

\* C14: tidy passes over every module whose name ends in "_candidates" or
\* "_municipalities" before any step: the pass of the loop on it leaves the
\* division_id and jurisdiction_id sets, the findings, the files and the
\* rewrites as they were and calls nothing, no finding names it, and so
\* every get_definition call of tidy has aggregation False.
SkippedModulesContributeNothing ==
    [][/\ (/\ tidy_pc = "running"
           /\ position \in PassedOver)
          => /\ tidy_pc' = "running"
             /\ position' = position + 1
             /\ UNCHANGED <<division_ids, jurisdiction_ids, printed, rewrites, disk,
                            defined, raised, memo_vars>>
       /\ \A i \in DOMAIN printed' : \A j \in PassedOver : printed'[i].module # order[j]
       /\ \A i \in DOMAIN defined' : defined'[i].aggregation = FALSE]_vars

\* a complete run over a province's municipalities directory, whose class
\* and name fit aggregation only, followed by an audited module
SkippedModulesWitness ==
    /\ tidy_pc = "done"
    /\ order = <<"ca_ns_municipalities", "ca_nb_moncton">>
    /\ Len(defined) = 1
    /\ defined[1] = [division_id |-> MonctonId, aggregation |-> FALSE]
    /\ division_ids = {MonctonId}
    /\ MetadataOf("ca_ns_municipalities").division_id = Prefix \o "/province:ns"

====
